---- MODULE Spec2Model ----
(***************************************************************************)
(* A model of pit.py: the init and commit commands, the content model      *)
(* (Blob, Tree, Commit, Author, Entry), the object store (Database.store   *)
(* and Database.write_object) and the filesystem they act on.              *)
(*                                                                         *)
(* Text and bytes are sequences of integers: a str is the sequence of its  *)
(* code points, a bytes value the sequence of its byte values (0..255).    *)
(***************************************************************************)
EXTENDS Integers, Sequences, FiniteSets, TLC

(***************************************************************************)
(* Bounds of the model.                                                    *)
(***************************************************************************)
\* Bytes of the digest the model's hash keeps (hashlib.sha1 keeps 20).
DigestBytes == 2
\* Commands the processes may start, in total.
MaxRuns == 2
\* Process terminations (kill) the environment may deliver, in total.
MaxKills == 1
\* I/O faults (other than a missing directory) the filesystem may inject.
MaxFaults == 1
\* Calls of Database.store a client of the classes may make.
MaxCalls == 3
\* Entries of a Tree a client of the classes may build.
MaxEntries == 2

(***************************************************************************)
(* Literals of the source, as code points.                                 *)
(***************************************************************************)
SP == <<32>>
NUL == <<0>>
NL == <<10>>
\* ".git"
DotGit == <<46, 103, 105, 116>>
\* ".DS_Store"
DotDSStore == <<46, 68, 83, 95, 83, 116, 111, 114, 101>>
\* b'blob', b'commit', b'tree': the class attribute "type" of each kind
BlobType == <<98, 108, 111, 98>>
CommitType == <<99, 111, 109, 109, 105, 116>>
TreeType == <<116, 114, 101, 101>>
\* Tree.MODE = b'100644'
MODE == <<49, 48, 48, 54, 52, 52>>
\* "tree ", "author ", "committer " of Commit.serialize
TreeWord == <<116, 114, 101, 101, 32>>
AuthorWord == <<97, 117, 116, 104, 111, 114, 32>>
CommitterWord == <<99, 111, 109, 109, 105, 116, 116, 101, 114, 32>>
\* "tmp_obj_"
TmpPrefix == <<116, 109, 112, 95, 111, 98, 106, 95>>

(***************************************************************************)
(* Sequence helpers.                                                       *)
(***************************************************************************)
RECURSIVE ConcatRange(_, _, _)
\* parts[lo] \o ... \o parts[hi], by halves
ConcatRange(parts, lo, hi) ==
    IF lo > hi THEN <<>>
    ELSE IF lo = hi THEN parts[lo]
    ELSE LET mid == (lo + hi) \div 2 IN
         ConcatRange(parts, lo, mid) \o ConcatRange(parts, mid + 1, hi)

\* b"".join(parts)
Concat(parts) == ConcatRange(parts, 1, Len(parts))

\* sep.join(parts)
Join(sep, parts) ==
    Concat([i \in 1..(2 * Len(parts) - 1) |->
              IF i % 2 = 1 THEN parts[(i + 1) \div 2] ELSE sep])

\* s[:n] and s[n:] of Python, for 0 <= n
Take(s, n) == SubSeq(s, 1, IF n < Len(s) THEN n ELSE Len(s))
Drop(s, n) == SubSeq(s, n + 1, Len(s))

\* s.endswith(suffix)
EndsWith(s, suffix) ==
    /\ Len(suffix) <= Len(s)
    /\ SubSeq(s, Len(s) - Len(suffix) + 1, Len(s)) = suffix

RECURSIVE StrLess(_, _)
\* a < b on str: lexicographic on code points
StrLess(a, b) ==
    IF b = <<>> THEN FALSE
    ELSE IF a = <<>> THEN TRUE
    ELSE IF Head(a) # Head(b) THEN Head(a) < Head(b)
    ELSE StrLess(Tail(a), Tail(b))

RECURSIVE Str(_)
\* str(n) for n >= 0: decimal digits
Str(n) == IF n < 10 THEN <<48 + n>> ELSE Str(n \div 10) \o <<48 + (n % 10)>>

\* The UTF-8 bytes of one code point below 0x800
Utf8(c) ==
    IF c < 128 THEN <<c>> ELSE <<192 + (c \div 64), 128 + (c % 64)>>

\* str.encode()
Encode(s) == Concat([i \in 1..Len(s) |-> Utf8(s[i])])

(***************************************************************************)
(* bytearray.fromhex                                                       *)
(***************************************************************************)
IsHexChar(c) == c \in (48..57) \cup (97..102) \cup (65..70)
IsSpaceChar(c) == c \in {32, 9, 10, 11, 12, 13}
HexVal(c) == IF c \in 48..57 THEN c - 48
             ELSE IF c \in 97..102 THEN c - 87 ELSE c - 55

RECURSIVE SkipSpace(_)
SkipSpace(s) ==
    IF s # <<>> /\ IsSpaceChar(Head(s)) THEN SkipSpace(Tail(s)) ELSE s

RECURSIVE HexOk(_)
\* TRUE iff bytearray.fromhex(s) returns; FALSE iff it raises ValueError.
\* Whitespace is skipped before each pair of digits, never inside a pair.
HexOk(s) ==
    LET t == SkipSpace(s) IN
    IF t = <<>> THEN TRUE
    ELSE /\ Len(t) >= 2
         /\ IsHexChar(t[1])
         /\ IsHexChar(t[2])
         /\ HexOk(Drop(t, 2))

RECURSIVE FromHex(_)
\* bytearray.fromhex(s), where HexOk(s)
FromHex(s) ==
    LET t == SkipSpace(s) IN
    IF t = <<>> THEN <<>>
    ELSE <<16 * HexVal(t[1]) + HexVal(t[2])>> \o FromHex(Drop(t, 2))

(***************************************************************************)
(* hashlib.sha1(content).hexdigest(): a fixed-width digest of the bytes,   *)
(* as lowercase hex.  The model keeps DigestBytes bytes of a positional    *)
(* checksum (each byte weighted by a power of 33) in place of SHA-1's 20.  *)
(***************************************************************************)
RECURSIVE Pow(_, _)
Pow(b, e) == IF e = 0 THEN 1 ELSE b * Pow(b, e - 1)

DigestMod == Pow(256, DigestBytes)

RECURSIVE Weight(_)
\* 33^e modulo the prime 8191, by squaring
Weight(e) ==
    IF e = 0 THEN 1
    ELSE LET half == Weight(e \div 2) IN
         (((half * half) % 8191) * (IF e % 2 = 1 THEN 33 ELSE 1)) % 8191

RECURSIVE DigestRange(_, _, _)
\* The weighted sum of bytes[lo..hi], by halves
DigestRange(bytes, lo, hi) ==
    IF lo > hi THEN 0
    ELSE IF lo = hi THEN ((bytes[lo] + 1) * Weight(Len(bytes) - lo)) % DigestMod
    ELSE LET mid == (lo + hi) \div 2 IN
         (DigestRange(bytes, lo, mid) + DigestRange(bytes, mid + 1, hi))
            % DigestMod

Digest(bytes) == (5 + Len(bytes) + DigestRange(bytes, 1, Len(bytes))) % DigestMod

HexDigit(d) == IF d < 10 THEN 48 + d ELSE 87 + d

RECURSIVE HexOf(_, _)
\* n as exactly k lowercase hex digits
HexOf(n, k) ==
    IF k = 0 THEN <<>> ELSE HexOf(n \div 16, k - 1) \o <<HexDigit(n % 16)>>

Sha1HexDigest(content) == HexOf(Digest(content), 2 * DigestBytes)

(***************************************************************************)
(* zlib.compress / zlib.decompress: a reversible, self-delimiting stream:  *)
(* a two-byte header, the payload length, the payload and a one-byte       *)
(* checksum of the payload.  As zlib.decompress does, Decompress reads one *)
(* complete stream from the front and ignores what follows it.             *)
(***************************************************************************)
RECURSIVE SumRange(_, _, _)
\* bytes[lo] + ... + bytes[hi], by halves
SumRange(bytes, lo, hi) ==
    IF lo > hi THEN 0
    ELSE IF lo = hi THEN bytes[lo]
    ELSE LET mid == (lo + hi) \div 2 IN
         SumRange(bytes, lo, mid) + SumRange(bytes, mid + 1, hi)

ByteSum(bytes) == (1 + SumRange(bytes, 1, Len(bytes))) % 251

Compress(content) ==
    <<120, 156, Len(content)>> \o content \o <<ByteSum(content)>>

\* TRUE iff zlib.decompress(bytes) returns
DecompressOk(bytes) ==
    /\ Len(bytes) >= 4
    /\ Take(bytes, 2) = <<120, 156>>
    /\ Len(bytes) >= bytes[3] + 4
    /\ bytes[bytes[3] + 4] = ByteSum(SubSeq(bytes, 4, bytes[3] + 3))

\* zlib.decompress(bytes), where DecompressOk(bytes)
Decompress(bytes) == SubSeq(bytes, 4, bytes[3] + 3)

(***************************************************************************)
(* The content model.                                                      *)
(***************************************************************************)
\* An attribute that was never assigned (Tree and Commit set no id)
NoAttr == <<-1>>
\* No object constructed yet
NoObj == [type |-> "none", id |-> NoAttr]

\* Entry.__init__
Entry(name, id) == [name |-> name, id |-> id]
\* Author.__init__
Author(name, email, time) == [name |-> name, email |-> email, time |-> time]
\* Blob.__init__: id starts as the empty string
Blob(data) == [type |-> "blob", data |-> data, id |-> <<>>]
\* Tree.__init__
Tree(entries) == [type |-> "tree", entries |-> entries, id |-> NoAttr]
\* Commit.__init__
Commit(tree, author, message) ==
    [type |-> "commit", tree |-> tree, author |-> author,
     message |-> message, id |-> NoAttr]

\* The class attribute "type" of an object
TypeBytes(o) ==
    IF o.type = "blob" THEN BlobType
    ELSE IF o.type = "tree" THEN TreeType ELSE CommitType

\* datetime.strftime(time, "%s %z") of a naive datetime (datetime.now()):
\* the epoch seconds, a space, and an empty %z
Strftime(time) == Str(time) \o SP \o <<>>

\* Author.serialize
AuthorSerialize(a) == a.name \o SP \o a.email \o SP \o Strftime(a.time)

RECURSIVE InsertByName(_, _)
\* e placed after every entry whose name is not greater: a stable insertion
InsertByName(sorted, e) ==
    IF sorted = <<>> THEN <<e>>
    ELSE IF StrLess(e.name, Head(sorted).name) THEN <<e>> \o sorted
    ELSE <<Head(sorted)>> \o InsertByName(Tail(sorted), e)

\* SortedByName without the sort: the entries in insertion order
SortedByName_Unsorted(entries) == entries

RECURSIVE SortedByName(_)
\* sorted(entries, key=lambda x: x.name)
SortedByName(entries) ==
    IF entries = <<>> THEN <<>>
    ELSE InsertByName(SortedByName(SubSeq(entries, 1, Len(entries) - 1)),
                      entries[Len(entries)])

\* One entry of Tree.serialize
EntryBytes(e) == MODE \o SP \o Encode(e.name) \o NUL \o FromHex(e.id)

\* TRUE iff Tree.serialize returns (bytearray.fromhex raises ValueError)
TreeSerializeOk(entries) == \A i \in 1..Len(entries) : HexOk(entries[i].id)

\* Tree.serialize
TreeSerialize(entries) ==
    LET sorted == SortedByName(entries) IN
    Concat([i \in 1..Len(sorted) |-> EntryBytes(sorted[i])])

\* Commit.serialize
CommitSerialize(c) ==
    Encode(Join(NL, << TreeWord \o c.tree,
                       AuthorWord \o AuthorSerialize(c.author),
                       CommitterWord \o AuthorSerialize(c.author),
                       <<>>,
                       c.message >>))

\* TRUE iff object.serialize() returns
SerializeOk(o) == o.type = "tree" => TreeSerializeOk(o.entries)

\* object.serialize()
Serialize(o) ==
    IF o.type = "blob" THEN o.data
    ELSE IF o.type = "tree" THEN TreeSerialize(o.entries)
    ELSE CommitSerialize(o)

\* The frame Database.store hashes and writes
Frame(o) ==
    LET data == Serialize(o) IN
    TypeBytes(o) \o SP \o Encode(Str(Len(data))) \o NUL \o data

\* The id Database.store assigns
ContentId(o) == Sha1HexDigest(Frame(o))

(***************************************************************************)
(* The inputs the model draws from.                                        *)
(***************************************************************************)
\* File names "a", "b", "c.git" and file data "x", "y"
NameA == <<97>>
NameB == <<98>>
NameCGit == <<99, 46, 103, 105, 116>>
DataX == <<120>>
DataY == <<121>>

\* The working directories a run may start in: name -> bytes of the file
Workspaces ==
    { (NameA :> DataX) @@ (NameB :> DataY),
      (NameA :> DataX) @@ (NameB :> DataX) @@ (DotDSStore :> DataY),
      (NameA :> DataX) @@ (NameCGit :> DataX) }

\* An environment variable that is not set
Unset == <<-1>>
\* GIT_AUTHOR_NAME "J", GIT_AUTHOR_EMAIL "j@x"
Environments ==
    { [name |-> <<74>>, email |-> <<106, 64, 120>>],
      [name |-> Unset, email |-> <<106, 64, 120>>],
      [name |-> <<74>>, email |-> Unset] }

\* datetime.now(), in epoch seconds
Times == {5, 6}
\* sys.stdin.readline(): "m\n"
Messages == { <<109, 10>> }

\* The six characters generate_temp_name draws: "AAAAAA", "AAAAA7"
TempSuffixes == { <<65, 65, 65, 65, 65, 65>>, <<65, 65, 65, 65, 65, 55>> }

Procs == {1, 2}

(***************************************************************************)
(* The state: the filesystem, and each process's command and locals.       *)
(***************************************************************************)
VARIABLES
    dirs,      \* which of <root>/.git, .git/objects, .git/refs exist
    fanout,    \* the subdirectories of .git/objects, by name
    files,     \* the files of the fan-out subdirectories: path -> bytes
    head,      \* the content of .git/HEAD, or Absent
    work,      \* the files of the working directory: name -> bytes
    cmd,       \* the command each process runs
    pc,        \* where each process stands in it
    exitcode,  \* the exit status of each process, Running before it ends
    err,       \* the exception that ended it, "" if none
    loc,       \* the local variables and objects of each process
    runs,      \* commands started
    kills,     \* processes killed
    faults     \* I/O faults injected

vars == <<dirs, fanout, files, head, work, cmd, pc, exitcode, err, loc,
          runs, kills, faults>>

Absent == <<-1>>
Running == -1
Killed == 137

\* <db>/<id[:2]>/<id[2:]> and <db>/<id[:2]>/<temp name>
ObjectPath(id) == [dir |-> Take(id, 2), name |-> Drop(id, 2)]
\* Database.generate_temp_name
TempName(suffix) == TmpPrefix \o suffix
TempPath(id, suffix) == [dir |-> Take(id, 2), name |-> TempName(suffix)]
NoPath == [dir |-> <<>>, name |-> <<>>]

\* The variable f of write_object: unbound, or a file object on an open file
Unbound == [st |-> "unbound", path |-> NoPath]
OpenFile(path) == [st |-> "open", path |-> path]
ClosedFile == [st |-> "closed", path |-> NoPath]
\* an open file whose directory entry was replaced by another rename
DetachedFile == [st |-> "detached", path |-> NoPath]

\* What a call of a function with no return statement evaluates to
None == <<-2>>

\* The locals of a process that has not started; ret is the value of the
\* latest database.store(...) call expression, once one has returned, and
\* wrote the paths of the files the f.write and f.close of the write_object
\* call under way have put bytes into
NoLocals ==
    [ env |-> [name |-> Unset, email |-> Unset],
      todo |-> <<>>, file |-> <<>>, entries |-> <<>>,
      blob |-> NoObj, tree |-> NoObj, commit |-> NoObj,
      storing |-> "none",
      id |-> <<>>, content |-> <<>>, temp |-> <<>>,
      f |-> Unbound, buf |-> <<>>, openErr |-> "", ret |-> NoAttr,
      wrote |-> {} ]

Init ==
    /\ dirs \in { {}, {"git", "objects", "refs"} }
    /\ fanout = {}
    /\ files = << >>
    /\ head = Absent
    /\ work \in Workspaces
    /\ cmd = [p \in Procs |-> "none"]
    /\ pc = [p \in Procs |-> "idle"]
    /\ exitcode = [p \in Procs |-> Running]
    /\ err = [p \in Procs |-> ""]
    /\ loc = [p \in Procs |-> NoLocals]
    /\ runs = 0
    /\ kills = 0
    /\ faults = 0

(***************************************************************************)
(* Steps shared by the commands.                                           *)
(***************************************************************************)
Idle(p) == pc[p] \in {"idle", "exit"}

\* The process ends with the exit status code, e naming the exception or
\* the signal that ended it ("" on a normal return).  Its objects and
\* locals end with it.
Exit(p, code, e) ==
    /\ pc' = [pc EXCEPT ![p] = "exit"]
    /\ exitcode' = [exitcode EXCEPT ![p] = code]
    /\ err' = [err EXCEPT ![p] = e]
    /\ loc' = [loc EXCEPT ![p] = NoLocals]

\* An uncaught exception e ends the process with exit status 1
Raise(p, e) == Exit(p, 1, e)

\* The process goes on at label with the locals l
Goto(p, label, l) ==
    /\ pc' = [pc EXCEPT ![p] = label]
    /\ loc' = [loc EXCEPT ![p] = l]
    /\ UNCHANGED <<exitcode, err>>

\* The filesystem may fail a call with an error other than a missing
\* directory (EACCES, ENOSPC, ...)
CanFault == faults < MaxFaults

\* The bytes of the file at path with more appended (a write in mode 'a')
Appended(fs, path, bytes) == [fs EXCEPT ![path] = @ \o bytes]

\* The process is terminated from outside at any point of a command.  Its
\* open file is closed by the system; what its buffer holds is lost.
Kill(p) ==
    /\ ~Idle(p)
    /\ kills < MaxKills
    /\ kills' = kills + 1
    /\ Exit(p, Killed, "SIGKILL")
    /\ UNCHANGED <<dirs, fanout, files, head, work, cmd, runs, faults>>

(***************************************************************************)
(* Database.store and Database.write_object                                *)
(***************************************************************************)
\* StoreUpdate with the id the object already carries hashed along with the
\* frame: a second store of the object gives it another id
StoreUpdate_Rehash(l) ==
    LET o == l[l.storing]
        seen == IF o.id = NoAttr THEN <<>> ELSE o.id
        id == Sha1HexDigest(Frame(o) \o seen)
    IN [l EXCEPT ![l.storing].id = id, !.id = id, !.content = Frame(o)]

\* The locals after lines 177-188 of store, at the call of write_object:
\* the object serialized, framed and hashed, the id assigned onto it
StoreUpdate(l) ==
    LET o == l[l.storing]
        id == ContentId(o)
    IN [l EXCEPT ![l.storing].id = id, !.id = id, !.content = Frame(o)]

\* store(l[l.storing]) up to the call of write_object; object.serialize()
\* may raise ValueError
Store(p, l) ==
    IF SerializeOk(l[l.storing])
    THEN Goto(p, "open", StoreUpdate(l))
    ELSE Raise(p, "ValueError")

\* open(temp_path, 'a+b') where it succeeds: the file is created when it is
\* absent and kept as it is when it exists
OpenAppend(fs, path) ==
    IF path \in DOMAIN fs THEN fs ELSE fs @@ (path :> <<>>)

\* The first open: line 198 draws the temporary name, line 201 opens it.
\* ENOENT leads to the mkdir; any other error is caught and dropped, and
\* the code goes on with f unbound.
WriteObjectOpen(p, suffix) ==
    /\ pc[p] = "open"
    /\ LET path == TempPath(loc[p].id, suffix) IN
       IF path.dir \notin fanout
       THEN /\ Goto(p, "mkdir", [loc[p] EXCEPT !.temp = suffix,
                                               !.openErr = "ENOENT"])
            /\ UNCHANGED <<files, faults>>
       ELSE \/ /\ files' = OpenAppend(files, path)
               /\ Goto(p, "write", [loc[p] EXCEPT !.temp = suffix,
                                                  !.f = OpenFile(path)])
               /\ UNCHANGED faults
            \/ /\ CanFault
               /\ faults' = faults + 1
               /\ Goto(p, "write", [loc[p] EXCEPT !.temp = suffix,
                                                  !.openErr = "EACCES"])
               /\ UNCHANGED files
    /\ UNCHANGED <<dirs, fanout, head, work, cmd, runs, kills>>

\* os.mkdir(dirname), line 204
WriteObjectMkdir(p) ==
    /\ pc[p] = "mkdir"
    /\ LET dir == Take(loc[p].id, 2) IN
       IF dir \in fanout
       THEN /\ Raise(p, "FileExistsError")
            /\ UNCHANGED <<fanout, faults>>
       ELSE IF "objects" \notin dirs
       THEN /\ Raise(p, "FileNotFoundError")
            /\ UNCHANGED <<fanout, faults>>
       ELSE \/ /\ fanout' = fanout \cup {dir}
               /\ Goto(p, "reopen", loc[p])
               /\ UNCHANGED faults
            \/ /\ CanFault
               /\ faults' = faults + 1
               /\ Raise(p, "PermissionError")
               /\ UNCHANGED fanout
    /\ UNCHANGED <<dirs, files, head, work, cmd, runs, kills>>

\* The second open, line 205: whatever it raises propagates
WriteObjectReopen(p) ==
    /\ pc[p] = "reopen"
    /\ LET path == TempPath(loc[p].id, loc[p].temp) IN
       \/ /\ files' = OpenAppend(files, path)
          /\ Goto(p, "write", [loc[p] EXCEPT !.f = OpenFile(path)])
          /\ UNCHANGED faults
       \/ /\ CanFault
          /\ faults' = faults + 1
          /\ Raise(p, "PermissionError")
          /\ UNCHANGED files
    /\ UNCHANGED <<dirs, fanout, head, work, cmd, runs, kills>>

\* How many bytes of a write reach the file before the file object's buffer
\* takes the rest: none of them, or half
FlushLens(bytes) == {0, Len(bytes) \div 2}

\* Lines 207-208: compress, f.write(compressed).  With f unbound the
\* reference to f raises UnboundLocalError.
WriteObjectWrite(p, k) ==
    /\ pc[p] = "write"
    /\ LET compressed == Compress(loc[p].content)
           f == loc[p].f
       IN IF f.st = "unbound"
          THEN /\ k = 0
               /\ Raise(p, "UnboundLocalError")
               /\ UNCHANGED files
          ELSE /\ k \in FlushLens(compressed)
               /\ files' = IF f.st = "open"
                           THEN Appended(files, f.path, Take(compressed, k))
                           ELSE files
               /\ Goto(p, "close",
                       [loc[p] EXCEPT
                          !.buf = Drop(compressed, k),
                          !.wrote = IF f.st = "open" /\ k > 0
                                    THEN @ \cup {f.path} ELSE @])
    /\ UNCHANGED <<dirs, fanout, head, work, cmd, runs, kills, faults>>

\* f.close(), line 209: the buffer is flushed to the end of the file
WriteObjectClose(p) ==
    /\ pc[p] = "close"
    /\ LET f == loc[p].f IN
       files' = IF f.st = "open"
                THEN Appended(files, f.path, loc[p].buf)
                ELSE files
    /\ Goto(p, "rename",
            [loc[p] EXCEPT
               !.f = ClosedFile, !.buf = <<>>,
               !.wrote = IF loc[p].f.st = "open" /\ loc[p].buf # <<>>
                         THEN @ \cup {loc[p].f.path} ELSE @])
    /\ UNCHANGED <<dirs, fanout, head, work, cmd, runs, kills, faults>>

\* Renamed with a copy in place of the rename: src stays
Renamed_Copy(fs, src, dst) ==
    [q \in DOMAIN fs \cup {dst} |-> IF q = dst THEN fs[src] ELSE fs[q]]

\* The files after os.rename(src, dst), src existing
Renamed(fs, src, dst) ==
    [q \in (DOMAIN fs \ {src}) \cup {dst} |->
        IF q = dst THEN fs[src] ELSE fs[q]]

\* A file object another process holds, after this rename: it follows the
\* file from src to dst, and loses its directory entry when it was on dst
FollowRename(f, src, dst) ==
    IF f.st # "open" THEN f
    ELSE IF f.path = src THEN OpenFile(dst)
    ELSE IF f.path = dst THEN DetachedFile
    ELSE f

\* Where the caller of store goes on when store returns: in commit, line 62
\* after a blob (and line 56 again), line 67 after the tree, line 75 after
\* the commit
ReturnLabel(p) ==
    IF cmd[p] = "client" THEN "client"
    ELSE IF loc[p].storing = "blob" THEN "loop"
    ELSE IF loc[p].storing = "tree" THEN "identity"
    ELSE "head_open"

\* ReturnLocals with line 62 run before line 59: the Entry takes the id the
\* Blob has before it is stored
ReturnLocals_EntryBeforeStore(p) ==
    LET l == [loc[p] EXCEPT !.id = <<>>, !.content = <<>>, !.temp = <<>>,
                            !.f = Unbound, !.buf = <<>>, !.openErr = "",
                            !.storing = "none", !.ret = None,
                            !.wrote = {}]
    IN IF cmd[p] = "commit" /\ loc[p].storing = "blob"
       THEN [l EXCEPT !.entries = Append(@, Entry(l.file, Blob(l.blob.data).id))]
       ELSE l

\* The caller's locals when store returns: the locals of write_object are
\* gone, the call has the value None (store ends at line 188 with no return
\* statement), and commit has run entries.append(Entry(file, blob.id)),
\* line 62
ReturnLocals(p) ==
    LET l == [loc[p] EXCEPT !.id = <<>>, !.content = <<>>, !.temp = <<>>,
                            !.f = Unbound, !.buf = <<>>, !.openErr = "",
                            !.storing = "none", !.ret = None,
                            !.wrote = {}]
    IN IF cmd[p] = "commit" /\ loc[p].storing = "blob"
       THEN [l EXCEPT !.entries = Append(@, Entry(l.file, l.blob.id))]
       ELSE l

\* os.rename(temp_path, object_path), line 210, and the return to the caller
WriteObjectRename(p) ==
    /\ pc[p] = "rename"
    /\ LET src == TempPath(loc[p].id, loc[p].temp)
           dst == ObjectPath(loc[p].id)
       IN IF src \in DOMAIN files
          THEN /\ files' = Renamed(files, src, dst)
               /\ pc' = [pc EXCEPT ![p] = ReturnLabel(p)]
               /\ loc' = [q \in Procs |->
                            IF q = p THEN ReturnLocals(p)
                            ELSE [loc[q] EXCEPT
                                    !.f = FollowRename(@, src, dst)]]
               /\ UNCHANGED <<exitcode, err>>
          ELSE /\ Raise(p, "FileNotFoundError")
               /\ UNCHANGED files
    /\ UNCHANGED <<dirs, fanout, head, work, cmd, runs, kills, faults>>

WriteObject(p) ==
    \/ \E suffix \in TempSuffixes : WriteObjectOpen(p, suffix)
    \/ WriteObjectMkdir(p)
    \/ WriteObjectReopen(p)
    \/ \E k \in FlushLens(Compress(loc[p].content)) : WriteObjectWrite(p, k)
    \/ WriteObjectClose(p)
    \/ WriteObjectRename(p)

(***************************************************************************)
(* init                                                                    *)
(***************************************************************************)
StartInit(p) ==
    /\ Idle(p)
    /\ runs < MaxRuns
    /\ runs' = runs + 1
    /\ cmd' = [cmd EXCEPT ![p] = "init"]
    /\ pc' = [pc EXCEPT ![p] = "mkdir_git"]
    /\ exitcode' = [exitcode EXCEPT ![p] = Running]
    /\ err' = [err EXCEPT ![p] = ""]
    /\ loc' = [loc EXCEPT ![p] = NoLocals]
    /\ UNCHANGED <<dirs, fanout, files, head, work, kills, faults>>

\* The directory each step of init makes, its parent, and the step after it
InitDir(label) ==
    IF label = "mkdir_git" THEN "git"
    ELSE IF label = "mkdir_objects" THEN "objects" ELSE "refs"
InitParentExists(label) == label = "mkdir_git" \/ "git" \in dirs
InitNext(label) ==
    IF label = "mkdir_git" THEN "mkdir_objects"
    ELSE IF label = "mkdir_objects" THEN "mkdir_refs" ELSE "exit"

\* except OSError: write to stderr, sys.exit(1)
InitFailed(p) == Exit(p, 1, "Unable to initialize git paths")

\* One pathlib.Path(...).mkdir() of init, lines 34 and 38; after the last
\* one, sys.exit(0)
InitMkdir(p) ==
    /\ pc[p] \in {"mkdir_git", "mkdir_objects", "mkdir_refs"}
    /\ IF InitDir(pc[p]) \in dirs \/ ~InitParentExists(pc[p])
       THEN /\ InitFailed(p)
            /\ UNCHANGED <<dirs, faults>>
       ELSE \/ /\ dirs' = dirs \cup {InitDir(pc[p])}
               /\ IF InitNext(pc[p]) = "exit"
                  THEN Exit(p, 0, "")
                  ELSE Goto(p, InitNext(pc[p]), loc[p])
               /\ UNCHANGED faults
            \/ /\ CanFault
               /\ faults' = faults + 1
               /\ InitFailed(p)
               /\ UNCHANGED dirs
    /\ UNCHANGED <<fanout, files, head, work, cmd, runs, kills>>

(***************************************************************************)
(* commit                                                                  *)
(***************************************************************************)
\* The process is started with the environment e
StartCommit(p, e) ==
    /\ Idle(p)
    /\ runs < MaxRuns
    /\ runs' = runs + 1
    /\ cmd' = [cmd EXCEPT ![p] = "commit"]
    /\ pc' = [pc EXCEPT ![p] = "list"]
    /\ exitcode' = [exitcode EXCEPT ![p] = Running]
    /\ err' = [err EXCEPT ![p] = ""]
    /\ loc' = [loc EXCEPT ![p] = [NoLocals EXCEPT !.env = e]]
    /\ UNCHANGED <<dirs, fanout, files, head, work, kills, faults>>

\* os.listdir(<root>)
ListDir == DOMAIN work \cup (IF "git" \in dirs THEN {DotGit} ELSE {})

RECURSIVE SortedNames(_)
\* sorted(names) of a collection of distinct str
SortedNames(names) ==
    IF names = {} THEN <<>>
    ELSE LET least == CHOOSE n \in names :
                        \A m \in names \ {n} : StrLess(n, m)
         IN <<least>> \o SortedNames(names \ {least})

\* Workspace.list_files
ListFiles ==
    SortedNames({n \in ListDir :
                   ~EndsWith(n, DotGit) /\ ~EndsWith(n, DotDSStore)})

\* Line 56, the call of list_files
CommitList(p) ==
    /\ pc[p] = "list"
    /\ Goto(p, "loop", [loc[p] EXCEPT !.todo = ListFiles, !.entries = <<>>])
    /\ UNCHANGED <<dirs, fanout, files, head, work, cmd, runs, kills, faults>>

\* Lines 56-59 for the next file: read_file (which may raise), Blob(data)
\* and store(blob) up to its call of write_object
CommitRead(p) ==
    /\ pc[p] = "loop"
    /\ loc[p].todo # <<>>
    /\ \/ /\ Store(p, [loc[p] EXCEPT !.file = Head(loc[p].todo),
                                     !.todo = Tail(loc[p].todo),
                                     !.blob = Blob(work[Head(loc[p].todo)]),
                                     !.storing = "blob"])
          /\ UNCHANGED faults
       \/ /\ CanFault
          /\ faults' = faults + 1
          /\ Raise(p, "PermissionError")
    /\ UNCHANGED <<dirs, fanout, files, head, work, cmd, runs, kills>>

\* Lines 64-65, after the last file: Tree(entries) and store(tree) up to its
\* call of write_object
CommitTree(p) ==
    /\ pc[p] = "loop"
    /\ loc[p].todo = <<>>
    /\ Store(p, [loc[p] EXCEPT !.tree = Tree(loc[p].entries),
                               !.storing = "tree"])
    /\ UNCHANGED <<dirs, fanout, files, head, work, cmd, runs, kills, faults>>

\* CommitIdentity with the call database.store(commit) left out: the Commit
\* gets its id and commit goes on to HEAD, no object written
CommitIdentity_HeadFirst(p, now, message) ==
    /\ pc[p] = "identity"
    /\ IF loc[p].env.name = Unset \/ loc[p].env.email = Unset
       THEN Raise(p, "KeyError")
       ELSE Goto(p, "head_open",
                 StoreUpdate([loc[p] EXCEPT
                    !.commit =
                       Commit(loc[p].tree.id,
                              Author(loc[p].env.name, loc[p].env.email, now),
                              message),
                    !.storing = "commit"]))
    /\ UNCHANGED <<dirs, fanout, files, head, work, cmd, runs, kills, faults>>

\* CommitIdentity with os.environ.get in place of os.environ[...]: an unset
\* variable raises nothing
CommitIdentity_Unchecked(p, now, message) ==
    /\ pc[p] = "identity"
    /\ Store(p, [loc[p] EXCEPT
                   !.commit =
                      Commit(loc[p].tree.id,
                             Author(loc[p].env.name, loc[p].env.email, now),
                             message),
                   !.storing = "commit"])
    /\ UNCHANGED <<dirs, fanout, files, head, work, cmd, runs, kills, faults>>

\* Lines 67-73: the two os.environ lookups (KeyError when unset),
\* datetime.now(), readline, Commit(...) and store(commit) up to its call of
\* write_object
CommitIdentity(p, now, message) ==
    /\ pc[p] = "identity"
    /\ IF loc[p].env.name = Unset \/ loc[p].env.email = Unset
       THEN Raise(p, "KeyError")
       ELSE Store(p, [loc[p] EXCEPT
                        !.commit =
                           Commit(loc[p].tree.id,
                                  Author(loc[p].env.name, loc[p].env.email, now),
                                  message),
                        !.storing = "commit"])
    /\ UNCHANGED <<dirs, fanout, files, head, work, cmd, runs, kills, faults>>

\* CommitHeadOpen with mode "w+" in place of "a+": HEAD is emptied
CommitHeadOpen_Truncate(p) ==
    /\ pc[p] = "head_open"
    /\ IF "git" \notin dirs
       THEN /\ Raise(p, "FileNotFoundError")
            /\ UNCHANGED head
       ELSE /\ head' = <<>>
            /\ Goto(p, "head_write", loc[p])
    /\ UNCHANGED <<dirs, fanout, files, work, cmd, runs, kills, faults>>

\* open(head_path, "a+"), line 76: HEAD is created when it is absent
CommitHeadOpen(p) ==
    /\ pc[p] = "head_open"
    /\ IF "git" \notin dirs
       THEN /\ Raise(p, "FileNotFoundError")
            /\ UNCHANGED head
       ELSE /\ head' = IF head = Absent THEN <<>> ELSE head
            /\ Goto(p, "head_write", loc[p])
    /\ UNCHANGED <<dirs, fanout, files, work, cmd, runs, kills, faults>>

\* file.write(commit.id) and the close that ends the with block, line 77;
\* then the print of line 79 and the return
CommitHeadWrite(p) ==
    /\ pc[p] = "head_write"
    /\ head' = head \o loc[p].commit.id
    /\ Exit(p, 0, "")
    /\ UNCHANGED <<dirs, fanout, files, work, cmd, runs, kills, faults>>

(***************************************************************************)
(* The program: processes that run init and commit on one root directory.  *)
(***************************************************************************)
\* One step of process p
Step(p) ==
    \/ StartInit(p)
    \/ InitMkdir(p)
    \/ \E e \in Environments : StartCommit(p, e)
    \/ CommitList(p)
    \/ CommitRead(p)
    \/ CommitTree(p)
    \/ \E now \in Times, message \in Messages :
          CommitIdentity(p, now, message)
    \/ WriteObject(p)
    \/ CommitHeadOpen(p)
    \/ CommitHeadWrite(p)
    \/ Kill(p)

Next == \E p \in Procs : Step(p)

Spec == Init /\ [][Next]_vars

\* One process at a time: commands run one after the other, each one to
\* its end or to the point where it is killed
NextSolo == Step(1)

SpecSolo == Init /\ [][NextSolo]_vars

(***************************************************************************)
(* A client of the classes: a caller that constructs Blob, Tree and Commit *)
(* objects from any arguments and calls Database.store on them, in an      *)
(* initialized repository.                                                 *)
(***************************************************************************)
IdX == ContentId(Blob(DataX))
IdY == ContentId(Blob(DataY))

\* The ids a client gives to Entry: the ids of two blobs, the id "" of a
\* Blob that was never stored, "gggg", "abc" and "ab"
ClientEntryIds ==
    { IdX, IdY, <<>>, <<103, 103, 103, 103>>, <<97, 98, 99>>, <<97, 98>> }

ClientEntries == { Entry(n, i) : n \in {NameA, NameB}, i \in ClientEntryIds }

\* The lists of at most MaxEntries entries
ClientEntryLists ==
    UNION { [1..n -> ClientEntries] : n \in 0..MaxEntries }

InitStore ==
    /\ dirs = {"git", "objects", "refs"}
    /\ fanout = {}
    /\ files = << >>
    /\ head = Absent
    /\ work = << >>
    /\ cmd = [p \in Procs |-> IF p = 1 THEN "client" ELSE "none"]
    /\ pc = [p \in Procs |-> IF p = 1 THEN "client" ELSE "idle"]
    /\ exitcode = [p \in Procs |-> Running]
    /\ err = [p \in Procs |-> ""]
    /\ loc = [p \in Procs |->
                [NoLocals EXCEPT !.env = [name |-> <<74>>,
                                          email |-> <<106, 64, 120>>]]]
    /\ runs = 0
    /\ kills = 0
    /\ faults = 0

AtClient(p) == cmd[p] = "client" /\ pc[p] = "client"

\* blob = Blob(data)
ClientBlob(p, data) ==
    /\ AtClient(p)
    /\ loc[p].blob = NoObj
    /\ Goto(p, "client", [loc[p] EXCEPT !.blob = Blob(data)])
    /\ UNCHANGED <<dirs, fanout, files, head, work, cmd, runs, kills, faults>>

\* tree = Tree(entries)
ClientTree(p, entries) ==
    /\ AtClient(p)
    /\ loc[p].tree = NoObj
    /\ Goto(p, "client", [loc[p] EXCEPT !.tree = Tree(entries)])
    /\ UNCHANGED <<dirs, fanout, files, head, work, cmd, runs, kills, faults>>

\* commit = Commit(tree, Author(name, email, now), message)
ClientCommit(p, tree, now, message) ==
    /\ AtClient(p)
    /\ loc[p].commit = NoObj
    /\ Goto(p, "client",
            [loc[p] EXCEPT !.commit =
               Commit(tree, Author(loc[p].env.name, loc[p].env.email, now),
                      message)])
    /\ UNCHANGED <<dirs, fanout, files, head, work, cmd, runs, kills, faults>>

\* database.store(blob), store(tree) or store(commit), up to the call of
\* write_object
ClientStore(p, slot) ==
    /\ AtClient(p)
    /\ loc[p][slot] # NoObj
    /\ runs < MaxCalls
    /\ runs' = runs + 1
    /\ Store(p, [loc[p] EXCEPT !.storing = slot])
    /\ UNCHANGED <<dirs, fanout, files, head, work, cmd, kills, faults>>

NextStore ==
    \E p \in Procs :
        \/ \E data \in {DataX, DataY} : ClientBlob(p, data)
        \/ \E entries \in ClientEntryLists : ClientTree(p, entries)
        \/ \E tree \in {IdX} \cup ({loc[p].tree.id} \ {NoAttr}),
              now \in Times, message \in Messages :
                 ClientCommit(p, tree, now, message)
        \/ \E slot \in {"blob", "tree", "commit"} : ClientStore(p, slot)
        \/ WriteObject(p)

SpecStore == InitStore /\ [][NextStore]_vars

(***************************************************************************)
(* Properties.                                                             *)
(***************************************************************************)
\* The labels of a process inside write_object
WriteObjectLabels == {"open", "mkdir", "reopen", "write", "close", "rename"}

\* A temporary name: "tmp_obj_" and six characters
IsTempName(name) == Take(name, Len(TmpPrefix)) = TmpPrefix

\* The final object paths among the files
FinalPaths == {path \in DOMAIN files : ~IsTempName(path.name)}

\* The file at a final path holds one complete compressed frame, the frame
\* whose digest names the path, and nothing else
Intact(path) ==
    LET bytes == files[path] IN
    /\ DecompressOk(bytes)
    /\ bytes = Compress(Decompress(bytes))
    /\ ObjectPath(Sha1HexDigest(Decompress(bytes))) = path

FinalPathsIntact == \A path \in FinalPaths : Intact(path)

\* C1: atomicity under interruption.  With commands run one at a time and
\* killed at any step, every file at a final object path holds the complete
\* compressed frame of a completed write, never partial or corrupt data.
C1_AtomicUnderInterruption == FinalPathsIntact

\* C2: concurrent writers of the same content_id are safe.  With no I/O
\* fault and no kill, in an initialized repository, a step of write_object
\* taken while another process is in write_object for the same id never
\* ends in an error, and every final path holds exactly one complete frame.
C2_ConcurrentSameId ==
    [][/\ (faults' = 0 /\ kills' = 0) => FinalPathsIntact'
       /\ \A p \in Procs :
            ( /\ pc[p] \in WriteObjectLabels
              /\ "objects" \in dirs
              /\ faults' = 0
              /\ kills' = 0
              /\ \E q \in Procs \ {p} : /\ pc[q] \in WriteObjectLabels
                                        /\ loc[q].id = loc[p].id )
            => exitcode'[p] = Running]_vars

\* C3: the fan-out mkdir is idempotent.  A writer whose first open failed
\* with ENOENT and that finds the subdirectory made by another writer when
\* its own mkdir runs goes on to retry the open.
C3_MkdirIdempotent ==
    [][\A p \in Procs :
         ( /\ pc[p] = "mkdir"
           /\ loc[p].openErr = "ENOENT"
           /\ Take(loc[p].id, 2) \in fanout
           /\ pc'[p] # "mkdir"
           /\ kills' = kills )
         => pc'[p] = "reopen"]_vars

\* C4: a first open that fails with an error other than ENOENT is fatal:
\* the store call ends with that I/O error, no directory is made, the open
\* is not retried, and nothing is written or renamed.
C4_OpenErrorPropagates ==
    [][\A p \in Procs :
         ( /\ pc[p] = "write"
           /\ loc[p].openErr = "EACCES"
           /\ pc'[p] # "write"
           /\ kills' = kills )
         => /\ pc'[p] = "exit"
            /\ exitcode'[p] = 1
            /\ err'[p] = "PermissionError"
            /\ fanout' = fanout
            /\ files' = files]_vars

\* The slots of a process that hold objects
Slots == {"blob", "tree", "commit"}

\* C5: dependency order within one commit.  Every Entry commit has
\* collected, and so every Entry of the Tree it stores, carries the id of
\* the Blob of that file, and a file exists at that id's final path; the
\* tree id of the Commit it stores is the id of that Tree, and a file exists
\* at its final path.
C5_DependencyOrder ==
    \A p \in Procs :
      cmd[p] = "commit" =>
        /\ \A i \in 1..Len(loc[p].entries) :
             LET e == loc[p].entries[i] IN
             /\ e.id = ContentId(Blob(work[e.name]))
             /\ ObjectPath(e.id) \in DOMAIN files
        /\ loc[p].tree # NoObj =>
             loc[p].tree.entries = loc[p].entries
        /\ loc[p].commit # NoObj =>
             /\ loc[p].commit.tree = ContentId(Tree(loc[p].entries))
             /\ ObjectPath(loc[p].commit.tree) \in DOMAIN files

\* C5 witness: a commit of two files is about to rename its Commit object
C5_Witness ==
    \E p \in Procs :
      /\ pc[p] = "rename"
      /\ loc[p].storing = "commit"
      /\ Len(loc[p].tree.entries) = 2

\* C6: init is all-or-nothing.  With no init under way and no process
\* killed, either all of .git, .git/objects and .git/refs exist or none.
C6_InitAllOrNothing ==
    ( /\ kills = 0
      /\ \A p \in Procs :
           pc[p] \notin {"mkdir_git", "mkdir_objects", "mkdir_refs"} )
    => dirs \in { {}, {"git", "objects", "refs"} }

\* A process whose environment lacks the author name or the author email
NoIdentity(p) == loc[p].env.name = Unset \/ loc[p].env.email = Unset

\* C7: missing identity.  A commit whose environment lacks the name or the
\* email builds and stores no Commit object and never reaches HEAD; at the
\* lookup it ends with KeyError, the object store and HEAD unchanged.
C7_MissingIdentity ==
    [][\A p \in Procs :
         (cmd[p] = "commit" /\ ~Idle(p) /\ NoIdentity(p) /\ kills' = kills)
         => /\ loc'[p].commit = NoObj
            /\ loc'[p].storing # "commit"
            /\ pc'[p] \notin {"head_open", "head_write"}
            /\ (pc[p] = "identity" /\ pc'[p] # "identity")
                 => /\ pc'[p] = "exit"
                    /\ exitcode'[p] = 1
                    /\ err'[p] = "KeyError"
                    /\ files' = files
                    /\ head' = head]_vars

\* C7 witness: a commit has ended with KeyError after its tree was stored
C7_Witness ==
    \E p \in Procs :
      /\ cmd[p] = "commit"
      /\ pc[p] = "exit"
      /\ err[p] = "KeyError"
      /\ FinalPaths # {}

\* The slots of a client whose object a store call has given an id
Stored(p) == {s \in Slots : loc[p][s].id \notin {NoAttr, <<>>}}

\* C8: store is idempotent.  Between the calls of a client that stores its
\* objects one call after the other, any of them more than once, each
\* stored object carries the digest of its frame, and the files under
\* objects/ are exactly one file per distinct id, at the id's path, holding
\* the compressed frame: a repeated store adds no file and changes none.
C8_StoreIdempotent ==
    \A p \in Procs :
      AtClient(p) =>
        /\ \A s \in Stored(p) :
             /\ loc[p][s].id = Sha1HexDigest(Frame(loc[p][s]))
             /\ ObjectPath(loc[p][s].id) \in DOMAIN files
             /\ files[ObjectPath(loc[p][s].id)] = Compress(Frame(loc[p][s]))
        /\ DOMAIN files = {ObjectPath(loc[p][s].id) : s \in Stored(p)}

\* C8 witness: two store calls have returned, both on the one Blob
C8_Witness ==
    /\ AtClient(1)
    /\ runs = 2
    /\ Stored(1) = {"blob"}
    /\ loc[1].tree = NoObj
    /\ loc[1].commit = NoObj

\* The permutations of a sequence
Orderings(seq) ==
    LET n == Len(seq)
        bijections == {f \in [1..n -> 1..n] : \A i, j \in 1..n :
                                                 f[i] = f[j] => i = j}
    IN {[i \in 1..n |-> seq[f[i]]] : f \in bijections}

\* No two entries carry the same name with different ids
NamesAgree(entries) ==
    \A i, j \in 1..Len(entries) :
       entries[i].name = entries[j].name => entries[i].id = entries[j].id

\* The names of the entries ascend, equal names side by side
Ascending(entries) ==
    \A i \in 1..(Len(entries) - 1) :
       ~StrLess(entries[i + 1].name, entries[i].name)

\* The Tree a process holds serializes to the same bytes, and gets the same
\* id, whatever the order of its entries
OrderIndependent(p) ==
    \A perm \in Orderings(loc[p].tree.entries) :
       /\ TreeSerialize(perm) = TreeSerialize(loc[p].tree.entries)
       /\ TreeSerialize(perm) =
            Concat([i \in 1..Len(perm) |-> EntryBytes(SortedByName(perm)[i])])
       /\ Ascending(SortedByName(perm))
       /\ loc[p].tree.id # NoAttr =>
            loc[p].tree.id = Sha1HexDigest(Frame(Tree(perm)))

\* A process holds a Tree that serializes
HoldsTree(p) ==
    loc[p].tree # NoObj /\ TreeSerializeOk(loc[p].tree.entries)

\* C9 as claimed: every Tree, entries with one name and different ids
\* included, serializes the same in every order of its entries.
C9_AnyEntries == \A p \in Procs : HoldsTree(p) => OrderIndependent(p)

\* C9 as amended: a Tree in which no two entries carry the same name with
\* different ids serializes to the same bytes, its entries in ascending
\* order of name, and is stored under the same id, in every order of its
\* entries.
C9_TreeOrderIndependent ==
    \A p \in Procs :
      (HoldsTree(p) /\ NamesAgree(loc[p].tree.entries)) => OrderIndependent(p)

\* C9 witness: a Tree built with "b" before "a" has been stored
C9_Witness ==
    /\ AtClient(1)
    /\ loc[1].tree # NoObj
    /\ loc[1].tree.entries = <<Entry(NameB, IdX), Entry(NameA, IdY)>>
    /\ loc[1].tree.id # NoAttr

\* Valid hex of the digest's length
WellFormedId(id) ==
    /\ Len(id) = 2 * DigestBytes
    /\ \A i \in 1..Len(id) : IsHexChar(id[i])

\* C10: a malformed entry id fails the store of the Tree in serialization.
\* A Tree that store has given an id, or that write_object is writing, has
\* only entries whose ids are valid hex of the digest's length.
C10_MalformedEntryId ==
    \A p \in Procs :
      ( /\ loc[p].tree # NoObj
        /\ \/ loc[p].tree.id # NoAttr
           \/ (loc[p].storing = "tree" /\ pc[p] \in WriteObjectLabels) )
      => \A i \in 1..Len(loc[p].tree.entries) :
            WellFormedId(loc[p].tree.entries[i].id)

\* s is a prefix of t
IsPrefix(s, t) == Len(s) <= Len(t) /\ Take(t, Len(s)) = s

\* s is a suffix of t
IsSuffix(s, t) == Len(s) <= Len(t) /\ Drop(t, Len(t) - Len(s)) = s

\* C11: HEAD is append-only.  With commits run one after the other, no
\* step rewrites, truncates or removes what HEAD holds: its content before
\* the step is a prefix of its content after it.  The step that opens HEAD
\* creates the file when it is absent, and a commit that ends with exit
\* status 0 leaves HEAD ending with the content id of its Commit object.
C11_HeadAppendOnly ==
    [][/\ head # Absent => (head' # Absent /\ IsPrefix(head, head'))
       /\ \A p \in Procs :
            /\ (pc[p] = "head_open" /\ pc'[p] = "head_write")
                 => head' # Absent
            /\ ( /\ cmd[p] = "commit"
                 /\ pc[p] # "exit"
                 /\ pc'[p] = "exit"
                 /\ exitcode'[p] = 0 )
               => /\ head' # Absent
                  /\ loc[p].commit # NoObj
                  /\ loc[p].commit.id = ContentId(loc[p].commit)
                  /\ IsSuffix(loc[p].commit.id, head')]_vars

\* C11 witness: two commits have ended with exit status 0, one after the
\* other, and HEAD holds two ids
C11_Witness ==
    /\ head # Absent
    /\ Len(head) = 2 * (2 * DigestBytes)
    /\ exitcode[1] = 0

\* C12: content_id lifecycle.  An object is constructed with no id (Tree,
\* Commit) or the empty id (Blob).  Its id changes only in a store call on
\* that object, to the digest of its frame, and once it has an id no later
\* step, of a store call on it or on another object, changes the id or
\* anything else of the object.
C12_IdLifecycle ==
    [][\A p \in Procs : \A s \in Slots :
         LET o == loc[p][s]
             n == loc'[p][s]
         IN /\ (o = NoObj /\ n # NoObj) => n.id \in {NoAttr, <<>>}
            /\ (o # NoObj /\ pc'[p] # "exit") =>
                 /\ n # NoObj
                 /\ n = [o EXCEPT !.id = n.id]
                 /\ n.id # o.id =>
                      /\ AtClient(p)
                      /\ loc'[p].storing = s
                      /\ n.id = Sha1HexDigest(Frame(o))
                 /\ o.id \notin {NoAttr, <<>>} => n.id = o.id]_vars

\* C12 witness: three store calls have returned, on a Blob and on a Tree,
\* one of the two stored twice
C12_Witness ==
    /\ AtClient(1)
    /\ runs = 3
    /\ Stored(1) = {"blob", "tree"}
    /\ loc[1].commit = NoObj

\* The step of process p is the normal return of a store call
StoreReturns(p) == pc[p] = "rename" /\ pc'[p] \notin {"rename", "exit"}

\* bytes holds a NUL, and the place of the first one
HasNul(bytes) == \E i \in 1..Len(bytes) : bytes[i] = 0
FirstNul(bytes) ==
    CHOOSE i \in 1..Len(bytes) :
       bytes[i] = 0 /\ \A j \in 1..(i - 1) : bytes[j] # 0

\* The file at path in fs decompresses to <kind> SP <len> NUL <content>,
\* <content> being the serialized object o and <len> its count of bytes
RoundTrip(fs, path, o) ==
    /\ path \in DOMAIN fs
    /\ DecompressOk(fs[path])
    /\ LET frame == Decompress(fs[path]) IN
       /\ HasNul(frame)
       /\ LET header == SubSeq(frame, 1, FirstNul(frame) - 1)
              content == Drop(frame, FirstNul(frame))
          IN /\ content = Serialize(o)
             /\ header = TypeBytes(o) \o SP \o Encode(Str(Len(content)))

\* C13: round-trip integrity.  When a store call returns, the file at the
\* final path of the object's id decompresses to the kind, a space, the
\* decimal count of the bytes of the content, a NUL and the content, the
\* content being what the object's serialize() returns.
C13_RoundTrip ==
    [][\A p \in Procs :
         StoreReturns(p) =>
            LET o == loc[p][loc[p].storing] IN
            RoundTrip(files', ObjectPath(o.id), o)]_vars

\* objects/<id[0:2]>/<id[2:]>, spelled out
FanOutPath(id) == [dir |-> SubSeq(id, 1, 2), name |-> SubSeq(id, 3, Len(id))]

\* The non-temporary files a step has made or changed
FinalPathsWritten ==
    {path \in FinalPaths' : path \notin FinalPaths \/ files'[path] # files[path]}

\* C14: fan-out correctness.  When a store call returns, a file exists at
\* objects/<id[0:2]>/<id[2:]> for the id it assigned, and the only
\* non-temporary file a step of a store call makes or changes is the one at
\* that path for the id of the call taking the step.
C14_FanOut ==
    [][/\ \A p \in Procs :
            StoreReturns(p) =>
               /\ loc[p][loc[p].storing].id = loc[p].id
               /\ Len(loc[p].id) = 2 * DigestBytes
               /\ FanOutPath(loc[p].id) \in FinalPaths'
       /\ \A path \in FinalPathsWritten :
            \E p \in Procs : /\ pc[p] \in WriteObjectLabels
                             /\ pc'[p] # pc[p]
                             /\ path = FanOutPath(loc[p].id)]_vars

\* C15: store returns the content id.  When a store call returns, the value
\* of the call is the id it computed, which is the id the object carries.
C15_StoreReturnsId ==
    [][\A p \in Procs :
         StoreReturns(p) =>
            /\ loc'[p].ret = loc[p].id
            /\ loc'[p].ret = loc'[p][loc[p].storing].id]_vars

\* The ids HEAD holds, one after the other, each of the digest's length
HeadIds ==
    LET width == 2 * DigestBytes IN
    {SubSeq(head, width * (i - 1) + 1, width * i) :
        i \in 1..(Len(head) \div width)}

\* HEAD, when it exists, holds whole ids only, each naming a file at its
\* final path in the store
HeadNamesStored ==
    head # Absent =>
       /\ Len(head) % (2 * DigestBytes) = 0
       /\ \A id \in HeadIds : ObjectPath(id) \in DOMAIN files

\* C16: no partial commits.  HEAD is created and appended to only by a
\* commit whose Commit object is at its final path, the append being that
\* Commit's id; a commit that ends with an error, wherever it fails, leaves
\* HEAD as it was; and every id in HEAD names an object in the store.
C16_NoPartialCommit ==
    [][/\ HeadNamesStored'
       /\ head' # head =>
            \E p \in Procs :
               /\ cmd[p] = "commit"
               /\ pc[p] \in {"head_open", "head_write"}
               /\ pc'[p] # pc[p]
               /\ loc[p].commit # NoObj
               /\ loc[p].commit.id = ContentId(loc[p].commit)
               /\ ObjectPath(loc[p].commit.id) \in DOMAIN files
               /\ pc[p] = "head_open" => (head = Absent /\ head' = <<>>)
               /\ pc[p] = "head_write" => head' = head \o loc[p].commit.id
       /\ \A p \in Procs :
            ( /\ cmd[p] = "commit"
              /\ pc[p] # "exit"
              /\ pc'[p] = "exit"
              /\ exitcode'[p] # 0 )
            => head' = head]_vars

\* C16 witness: one commit has ended with exit status 0 and another with
\* an error, and HEAD holds the one id
C16_Witness ==
    /\ head # Absent
    /\ Len(head) = 2 * DigestBytes
    /\ \E p, q \in Procs :
          /\ cmd[p] = "commit" /\ pc[p] = "exit" /\ exitcode[p] = 0
          /\ cmd[q] = "commit" /\ pc[q] = "exit" /\ exitcode[q] = 1

\* The names in the working directory root that commit has to record: all
\* but the .git control directory and the OS-metadata file .DS_Store
Recorded == DOMAIN work \ {DotGit, DotDSStore}

\* C17: no silent skipping of files.  The Tree commit builds has exactly
\* one entry for each name of the working directory root other than .git
\* and .DS_Store, a name that merely ends in .git included, each entry
\* carrying the id of a blob stored for that file.
C17_NoSilentSkip ==
    \A p \in Procs :
      (cmd[p] = "commit" /\ loc[p].tree # NoObj) =>
         LET entries == loc[p].tree.entries IN
         /\ Len(entries) = Cardinality(Recorded)
         /\ {entries[i].name : i \in 1..Len(entries)} = Recorded
         /\ \A i \in 1..Len(entries) :
               ObjectPath(entries[i].id) \in DOMAIN files

\* C18: the renamed file is this call's frame.  When write_object renames
\* its temporary file onto the final path and returns, the file at the
\* final path holds the compressed frame of this call and nothing else,
\* also when the temporary name it drew was that of a file already there.
C18_RenamedFileIsFrame ==
    [][\A p \in Procs :
         StoreReturns(p) =>
            /\ ObjectPath(loc[p].id) \in DOMAIN files'
            /\ files'[ObjectPath(loc[p].id)] = Compress(loc[p].content)]_vars

\* C19: the frame effect of write_object.  When a write_object call
\* returns, no file is left at the temporary path it drew, a file is at the
\* final path, its rename has changed no other file, and the bytes it wrote
\* went into no file other than the one at its temporary path or at its
\* final path.
C19_OnlyFinalPath ==
    [][\A p \in Procs :
         StoreReturns(p) =>
            LET temp == TempPath(loc[p].id, loc[p].temp)
                final == ObjectPath(loc[p].id)
            IN /\ temp \notin DOMAIN files'
               /\ final \in DOMAIN files'
               /\ \A path \in (DOMAIN files \cup DOMAIN files') \ {temp, final} :
                     /\ path \in DOMAIN files
                     /\ path \in DOMAIN files'
                     /\ files'[path] = files[path]
               /\ loc[p].wrote \subseteq {temp, final}]_vars

====
